---- MODULE Spec2Model ----
(***************************************************************************)
(* A model of dbcdiff.py: the set reconciliation, the property differ, the *)
(* change-record builder, the catalog differ (compare_dbc), the file-set   *)
(* differ (get_report) and the report-writing loop of main.                *)
(*                                                                         *)
(* Python values are tagged records, so that None, numbers, strings, lists *)
(* and dicts can be compared with each other the way Python's == does.     *)
(* A dict is an insertion-ordered sequence of <<key, value>> pairs with    *)
(* unique keys.                                                            *)
(***************************************************************************)
EXTENDS Integers, Sequences, FiniteSets, TLC

\* ------------------------------------------------------------------------
\* Bounds of the model
\* ------------------------------------------------------------------------
NumCatalogs == 4        \* how many different .dbc contents exist
MaxReports == 2         \* longest --reports list

\* ------------------------------------------------------------------------
\* Python values
\* ------------------------------------------------------------------------
None == [t |-> "None"]
PyInt(n) == [t |-> "int", n |-> n]
Str(s) == [t |-> "str", s |-> s]
Bool(b) == [t |-> "bool", b |-> b]
List(l) == [t |-> "list", l |-> l]
Dict(d) == [t |-> "dict", d |-> d]

EmptyDict == Dict(<<>>)

\* d.keys(), in iteration order
keys(D) == [i \in 1..Len(D.d) |-> D.d[i][1]]

\* set(d.keys())
KeySet(D) == {D.d[i][1] : i \in 1..Len(D.d)}

\* d[k]
getitem(D, k) == D.d[CHOOSE i \in 1..Len(D.d) : D.d[i][1] = k][2]

\* d[k] = v : an existing key keeps its position, a new key goes last
setitem(D, k, v) ==
    IF k \in KeySet(D)
    THEN Dict([i \in 1..Len(D.d) |-> IF D.d[i][1] = k THEN <<k, v>> ELSE D.d[i]])
    ELSE Dict(Append(D.d, <<k, v>>))

\* len(d)
len(D) == Len(D.d)

\* ------------------------------------------------------------------------
\* sorted(): integers by <, strings by code point.  The strings that occur
\* as keys are listed in the order Python's sorted() gives them.
\* ------------------------------------------------------------------------
LexOrder ==
    << "M1", "M2", "M3", "S1", "S2", "S3",
       "a.dbc", "a.dbc -> b.dbc", "a.dbc -> c.dbc",
       "b.dbc", "b.dbc -> a.dbc", "b.dbc -> c.dbc",
       "c.dbc", "c.dbc -> a.dbc", "c.dbc -> b.dbc",
       "notes.txt" >>

StrRank(s) == CHOOSE i \in 1..Len(LexOrder) : LexOrder[i] = s

RECURSIVE SortInts(_)
SortInts(S) ==
    IF S = {} THEN <<>>
    ELSE LET m == CHOOSE x \in S : \A y \in S : x <= y
         IN  <<m>> \o SortInts(S \ {m})

sorted(S) ==
    LET ranks == SortInts({StrRank(s) : s \in S})
    IN  [i \in 1..Len(ranks) |-> LexOrder[ranks[i]]]

\* ------------------------------------------------------------------------
\* hex(), str(), ','.join()
\* ------------------------------------------------------------------------
HexDigit == <<"0","1","2","3","4","5","6","7","8","9","a","b","c","d","e","f">>

RECURSIVE HexDigits(_)
HexDigits(n) ==
    IF n < 16 THEN HexDigit[n + 1]
    ELSE HexDigits(n \div 16) \o HexDigit[(n % 16) + 1]

hex(n) == IF n < 0 THEN "-0x" \o HexDigits(0 - n) ELSE "0x" \o HexDigits(n)

RECURSIVE DecDigits(_)
DecDigits(n) ==
    IF n < 10 THEN HexDigit[n + 1]
    ELSE DecDigits(n \div 10) \o HexDigit[(n % 10) + 1]

str(v) ==
    CASE v.t = "int"  -> IF v.n < 0 THEN "-" \o DecDigits(0 - v.n) ELSE DecDigits(v.n)
      [] v.t = "str"  -> v.s
      [] v.t = "bool" -> IF v.b THEN "True" ELSE "False"
      [] OTHER        -> "None"

RECURSIVE join(_, _)
join(sep, l) ==
    IF Len(l) = 0 THEN ""
    ELSE IF Len(l) = 1 THEN l[1]
    ELSE l[1] \o sep \o join(sep, Tail(l))

\* ------------------------------------------------------------------------
\* The two attribute schemas
\* ------------------------------------------------------------------------
message_properties ==
    << <<"frame_id", "hex">>, <<"is_extended_frame", "basic">>,
       <<"is_fd", "basic">>, <<"length", "basic">>,
       <<"send_type", "basic">>, <<"cycle_time", "basic">>,
       <<"senders", "list">>, <<"receivers", "list">> >>

signal_properties ==
    << <<"minimum", "basic">>, <<"maximum", "basic">>, <<"start", "basic">>,
       <<"length", "basic">>, <<"byte_order", "basic">>,
       <<"is_signed", "basic">>, <<"initial", "str">>, <<"invalid", "basic">>,
       <<"unit", "basic">>, <<"scale", "basic">>, <<"offset", "basic">>,
       <<"is_float", "basic">>, <<"choices", "dict">>, <<"spn", "basic">> >>

\* ------------------------------------------------------------------------
\* converter
\* ------------------------------------------------------------------------
RECURSIVE ConvertItems(_, _)
ConvertItems(items, result) ==
    IF Len(items) = 0 THEN result
    ELSE ConvertItems(Tail(items),
                      setitem(result, items[1][1].n, str(items[1][2])))

\* dict(sorted(result.items())) : the keys are unique, so by key
SortedItems(D) ==
    LET ks == SortInts(KeySet(D))
    IN  Dict([i \in 1..Len(ks) |-> <<ks[i], getitem(D, ks[i])>>])

converter(value, from_type) ==
    IF value = None THEN None
    ELSE CASE from_type = "hex"  -> Str(hex(value.n))
           [] from_type = "str"  -> Str(str(value))
           [] from_type = "dict" -> SortedItems(ConvertItems(value.d, EmptyDict))
           [] from_type = "list" -> Str(join(",", value.l))
           [] OTHER              -> value

\* ------------------------------------------------------------------------
\* compare_dictionaries
\* ------------------------------------------------------------------------
\* a variant that leaves the keys of both sides among the added ones
compare_dictionaries_overlapping(old, new) ==
    LET old_set == KeySet(old)
        new_set == KeySet(new)
    IN  [added |-> sorted(new_set), same |-> sorted(old_set \cap new_set),
         deleted |-> sorted(old_set \ new_set)]

\* a variant that returns the keys in the order the mappings iterate in
compare_dictionaries_unsorted(old, new) ==
    [added |-> SelectSeq(keys(new), LAMBDA k : k \notin KeySet(old)),
     same |-> SelectSeq(keys(old), LAMBDA k : k \in KeySet(new)),
     deleted |-> SelectSeq(keys(old), LAMBDA k : k \notin KeySet(new))]

compare_dictionaries(old, new) ==
    LET old_set == KeySet(old)
        new_set == KeySet(new)
        same    == old_set \cap new_set
        deleted == old_set \ new_set
        added   == new_set \ old_set
    IN  [added |-> sorted(added), same |-> sorted(same), deleted |-> sorted(deleted)]

\* ------------------------------------------------------------------------
\* build_change, build_action, compare_properties
\* ------------------------------------------------------------------------
build_change(action, change, signals) ==
    IF signals /= None
    THEN ("action" :> action) @@ (action :> change) @@ ("signals" :> signals)
    ELSE ("action" :> action) @@ (action :> change)

\* the entry build_action makes of one attribute
property_entry(action, name, value) ==
    IF action = "deleted"
    THEN [name |-> name, old |-> value, new |-> None]
    ELSE [name |-> name, old |-> None, new |-> value]

\* a variant that keeps the attributes without a value
build_action_keeping_none(action, item, properties, signals) ==
    LET properties_list ==
            [i \in 1..Len(properties) |->
                property_entry(action, properties[i][1],
                               converter(item[properties[i][1]], properties[i][2]))]
    IN  IF action \notin {"deleted", "added"} /\ Len(properties) > 0
        THEN [raised |-> TRUE, value |-> None]
        ELSE [raised |-> FALSE, value |-> build_change(action, properties_list, signals)]

\* raised = the loop over the properties has called logger.critical
build_action(action, item, properties, signals) ==
    LET all == [i \in 1..Len(properties) |->
                   property_entry(action, properties[i][1],
                                  converter(item[properties[i][1]], properties[i][2]))]
        kept(d) == IF action = "deleted" THEN d.old /= None ELSE d.new /= None
    IN  IF action \notin {"deleted", "added"} /\ Len(properties) > 0
        THEN [raised |-> TRUE, value |-> None]
        ELSE [raised |-> FALSE,
              value |-> build_change(action, SelectSeq(all, kept), signals)]

\* a variant that renders the identifier of the new side only as hex
compare_properties_raw_old(old_object, new_object, properties) ==
    LET all == [i \in 1..Len(properties) |->
                   [name |-> properties[i][1],
                    old |-> IF properties[i][2] = "hex"
                            THEN old_object[properties[i][1]]
                            ELSE converter(old_object[properties[i][1]], properties[i][2]),
                    new |-> converter(new_object[properties[i][1]], properties[i][2])]]
        differs(d) == d.old /= d.new
    IN  SelectSeq(all, differs)

compare_properties(old_object, new_object, properties) ==
    LET all == [i \in 1..Len(properties) |->
                   [name |-> properties[i][1],
                    old |-> converter(old_object[properties[i][1]], properties[i][2]),
                    new |-> converter(new_object[properties[i][1]], properties[i][2])]]
        differs(d) == d.old /= d.new
    IN  SelectSeq(all, differs)

\* ------------------------------------------------------------------------
\* compare_messages, message_signals
\* ------------------------------------------------------------------------
\* if len(changed_list) > 0: signals_changes[name] = build_change('changed', ...)
put_changed(signals_changes, name, changed_list) ==
    IF Len(changed_list) > 0
    THEN setitem(signals_changes, name, build_change("changed", changed_list, None))
    ELSE signals_changes

\* for name in same: ...
RECURSIVE SameSignalsLoop(_, _, _, _)
SameSignalsLoop(names, old_signals, new_signals, signals_changes) ==
    IF Len(names) = 0 THEN signals_changes
    ELSE SameSignalsLoop(Tail(names), old_signals, new_signals,
             put_changed(signals_changes, names[1],
                 compare_properties(getitem(old_signals, names[1]),
                                    getitem(new_signals, names[1]),
                                    signal_properties)))

\* changes[name] = r, where r is what build_action returned, if it returned
put_action(acc, name, r) ==
    IF r.raised THEN [raised |-> TRUE, value |-> acc.value]
    ELSE [raised |-> FALSE, value |-> setitem(acc.value, name, r.value)]

\* for name in <names>: signals_changes[name] = build_action(action, ...)
RECURSIVE SignalsActionLoop(_, _, _, _)
SignalsActionLoop(names, action, signals, acc) ==
    IF Len(names) = 0 \/ acc.raised THEN acc
    ELSE SignalsActionLoop(Tail(names), action, signals,
             put_action(acc, names[1],
                 build_action(action, getitem(signals, names[1]),
                              signal_properties, None)))

\* return message_changes_list, signals_changes
compare_messages_return(message_changes_list, signals_changes) ==
    [message_changes_list |-> message_changes_list,
     signals_changes |-> signals_changes.value,
     raised |-> signals_changes.raised]

\* the three loops of compare_messages over cd = <<added, same, deleted>>
compare_messages_loops(old_message, new_message, cd) ==
    SignalsActionLoop(cd.added, "added", new_message.msg_signals,
        SignalsActionLoop(cd.deleted, "deleted", old_message.msg_signals,
            [raised |-> FALSE,
             value |-> SameSignalsLoop(cd.same, old_message.msg_signals,
                                       new_message.msg_signals, EmptyDict)]))

\* a variant without the loop over the deleted signals
compare_messages_no_deleted(old_message, new_message) ==
    LET cd == compare_dictionaries(old_message.msg_signals, new_message.msg_signals)
    IN  compare_messages_return(
            compare_properties(old_message, new_message, message_properties),
            SignalsActionLoop(cd.added, "added", new_message.msg_signals,
                [raised |-> FALSE,
                 value |-> SameSignalsLoop(cd.same, old_message.msg_signals,
                                           new_message.msg_signals, EmptyDict)]))

compare_messages(old_message, new_message) ==
    compare_messages_return(
        compare_properties(old_message, new_message, message_properties),
        compare_messages_loops(old_message, new_message,
            compare_dictionaries(old_message.msg_signals, new_message.msg_signals)))

\* a variant that passes an action build_action does not know
message_signals_removed(action, signals) ==
    SignalsActionLoop(keys(signals), "removed", signals,
                      [raised |-> FALSE, value |-> EmptyDict])

\* iterates signals.items(): the order of the source mapping
message_signals(action, signals) ==
    SignalsActionLoop(keys(signals), action, signals,
                      [raised |-> FALSE, value |-> EmptyDict])

\* ------------------------------------------------------------------------
\* What cantools can load: signals, messages, databases (the inputs)
\* ------------------------------------------------------------------------
BaseSignal(name) ==
    [name |-> name, minimum |-> None, maximum |-> None, start |-> PyInt(0),
     length |-> PyInt(8), byte_order |-> Str("little_endian"),
     is_signed |-> Bool(FALSE), initial |-> None, invalid |-> None,
     unit |-> None, scale |-> PyInt(1), offset |-> PyInt(0),
     is_float |-> Bool(FALSE), choices |-> None, spn |-> None]

OffOn == Dict(<< <<PyInt(0), Str("OFF")>>, <<PyInt(1), Str("ON")>> >>)
OnOff == Dict(<< <<PyInt(1), Str("ON")>>, <<PyInt(0), Str("OFF")>> >>)
OffOn2 == Dict(<< <<PyInt(0), Str("OFF")>>, <<PyInt(1), Str("On")>> >>)

\* kind 1: bare; 2: with choices and bounds; 3: as 2, choices inserted in the
\* other order; 4: one label and the position changed, a unit added
Signal(name, kind) ==
    LET b == BaseSignal(name)
        c == [b EXCEPT !.minimum = PyInt(0), !.maximum = PyInt(1),
                       !.initial = PyInt(1), !.choices = OffOn]
    IN  CASE kind = 1 -> b
          [] kind = 2 -> c
          [] kind = 3 -> [c EXCEPT !.choices = OnOff]
          [] OTHER    -> [c EXCEPT !.choices = OffOn2, !.start = PyInt(8),
                                   !.unit = Str("V")]

BaseMessage(name, signals) ==
    [name |-> name, frame_id |-> PyInt(100), is_extended_frame |-> Bool(FALSE),
     is_fd |-> Bool(FALSE), length |-> PyInt(8), send_type |-> None,
     cycle_time |-> None, senders |-> List(<<"A", "B">>),
     receivers |-> List(<<>>), signals |-> signals]

\* kind 1: one signal; 2: S1 modified, S2 added in front of it; 3: as 1 with
\* another identifier, a cycle time and the senders reordered; 4: as 2, the
\* signals in the other order and an equal choices mapping
Message(name, kind) ==
    CASE kind = 1 -> BaseMessage(name, << Signal("S1", 1) >>)
      [] kind = 2 -> BaseMessage(name, << Signal("S2", 4), Signal("S1", 2) >>)
      [] kind = 3 -> [BaseMessage(name, << Signal("S1", 1) >>)
                        EXCEPT !.frame_id = PyInt(101),
                               !.cycle_time = PyInt(20),
                               !.senders = List(<<"B", "A">>)]
      [] OTHER    -> BaseMessage(name, << Signal("S1", 3), Signal("S2", 4) >>)

\* dbc.version of the i-th database: missing, empty or a string
Versions == << None, Str(""), Str("1.0"), Str("2.0") >>

\* the message kinds of the i-th database: <<kind of M1, kind of M2>>, 0 when
\* the database has no such message
Layouts == << <<2, 1>>, <<4, 0>>, <<1, 3>> >>

\* dbc.messages: M1 and M2 as far as the layout has them, in either order
Messages(layout, m2_first) ==
    LET m1 == IF layout[1] = 0 THEN <<>> ELSE << Message("M1", layout[1]) >>
        m2 == IF layout[2] = 0 THEN <<>> ELSE << Message("M2", layout[2]) >>
    IN  IF m2_first THEN m2 \o m1 ELSE m1 \o m2

Database(i) ==
    [messages |-> Messages(Layouts[((i - 1) % Len(Layouts)) + 1], i % 2 = 0),
     version |-> Versions[((i - 1) % Len(Versions)) + 1]]

\* a path names a file and stands for what cantools loads from it
Path(p, db) == [t |-> "path", p |-> p, db |-> db]

\* ------------------------------------------------------------------------
\* dbc_loader
\* ------------------------------------------------------------------------
RECURSIVE LoadSignals(_, _)
LoadSignals(dbc_signals, signals) ==
    IF Len(dbc_signals) = 0 THEN signals
    ELSE LoadSignals(Tail(dbc_signals),
                     setitem(signals, dbc_signals[1].name, dbc_signals[1]))

RECURSIVE LoadMessages(_, _)
LoadMessages(dbc_messages, messages) ==
    IF Len(dbc_messages) = 0 THEN messages
    ELSE LoadMessages(Tail(dbc_messages),
             setitem(messages, dbc_messages[1].name,
                     ("msg_signals" :> LoadSignals(dbc_messages[1].signals, EmptyDict))
                         @@ dbc_messages[1]))

\* the messages and the version of a loaded database
Loaded(dbc) ==
    [messages |-> LoadMessages(dbc.messages, EmptyDict),
     version |-> IF dbc.version = None \/ dbc.version = Str("")
                 THEN Str("unknown") ELSE dbc.version]

\* a variant that gives an absent side the version "unknown"
dbc_loader_unknown(dbc_file) ==
    IF dbc_file /= None
    THEN Loaded(Database(dbc_file.db))
    ELSE [messages |-> EmptyDict, version |-> Str("unknown")]

dbc_loader(dbc_file) ==
    IF dbc_file /= None
    THEN Loaded(Database(dbc_file.db))
    ELSE [messages |-> EmptyDict, version |-> None]

\* ------------------------------------------------------------------------
\* compare_dbc
\* ------------------------------------------------------------------------
\* if len(message_changed_list) > 0 or len(signals_changed_list) > 0:
\*     dbc_report[name] = build_change('changed', ...)
put_message(acc, name, cm) ==
    IF cm.raised THEN [raised |-> TRUE, value |-> acc.value]
    ELSE [raised |-> FALSE,
          value |-> IF Len(cm.message_changes_list) > 0 \/ len(cm.signals_changes) > 0
                    THEN setitem(acc.value, name,
                             build_change("changed", cm.message_changes_list,
                                          cm.signals_changes))
                    ELSE acc.value]

\* for name in same: ...
RECURSIVE SameMessagesLoop(_, _, _, _)
SameMessagesLoop(names, old_dbc, new_dbc, acc) ==
    IF Len(names) = 0 \/ acc.raised THEN acc
    ELSE SameMessagesLoop(Tail(names), old_dbc, new_dbc,
             put_message(acc, names[1],
                 compare_messages(getitem(old_dbc, names[1]),
                                  getitem(new_dbc, names[1]))))

\* build_action(action, message, message_properties, <what message_signals returned>)
message_action(action, message, signals) ==
    IF signals.raised THEN [raised |-> TRUE, value |-> None]
    ELSE build_action(action, message, message_properties, signals.value)

\* for name in <names>: dbc_report[name] = build_action(action, dbc[name],
\*     message_properties, message_signals(action, dbc[name].msg_signals))
RECURSIVE MessagesActionLoop(_, _, _, _)
MessagesActionLoop(names, action, dbc, acc) ==
    IF Len(names) = 0 \/ acc.raised THEN acc
    ELSE MessagesActionLoop(Tail(names), action, dbc,
             put_action(acc, names[1],
                 message_action(action, getitem(dbc, names[1]),
                     message_signals(action, getitem(dbc, names[1]).msg_signals))))

\* the three loops of compare_dbc over cd = <<added, same, deleted>>
compare_dbc_loops(old_dbc, new_dbc, cd) ==
    MessagesActionLoop(cd.added, "added", new_dbc,
        MessagesActionLoop(cd.deleted, "deleted", old_dbc,
            SameMessagesLoop(cd.same, old_dbc, new_dbc,
                             [raised |-> FALSE, value |-> EmptyDict])))

\* the versions mapping, and return dbc_report, versions
compare_dbc_return(old_path, new_path, old_version, new_version, dbc_report) ==
    [dbc_report |-> dbc_report.value,
     versions |-> ("same_version" :> (old_version = new_version))
                      @@ (IF old_path /= None
                          THEN ("old_version" :> old_version) ELSE <<>>)
                      @@ (IF new_path /= None
                          THEN ("new_version" :> new_version) ELSE <<>>),
     raised |-> dbc_report.raised]

\* compare_dbc once both sides are loaded
compare_loaded(old_dbc_file_path, new_dbc_file_path, old, new) ==
    compare_dbc_return(old_dbc_file_path, new_dbc_file_path, old.version, new.version,
        compare_dbc_loops(old.messages, new.messages,
                          compare_dictionaries(old.messages, new.messages)))

compare_dbc(old_dbc_file_path, new_dbc_file_path) ==
    compare_loaded(old_dbc_file_path, new_dbc_file_path,
                   dbc_loader(old_dbc_file_path), dbc_loader(new_dbc_file_path))

\* ------------------------------------------------------------------------
\* enum_files and the command line
\* ------------------------------------------------------------------------
DbcFiles == {"a.dbc", "b.dbc", "c.dbc"}

\* file.endswith(file_extension), for the file names of the model
endswith(file, file_extension) == file_extension = ".dbc" /\ file \in DbcFiles

RECURSIVE enum_files_loop(_, _, _)
enum_files_loop(walk, file_extension, populated_files) ==
    IF Len(walk) = 0 THEN populated_files
    ELSE enum_files_loop(Tail(walk), file_extension,
             IF endswith(walk[1].file, file_extension)
             THEN setitem(populated_files, walk[1].file, walk[1].path)
             ELSE populated_files)

enum_files(folder, file_extension) ==
    enum_files_loop(folder.walk, file_extension, EmptyDict)

\* d.pop(k)
pop(D, k) == Dict(SelectSeq(D.d, LAMBDA kv : kv[1] /= k))

\* what os.walk finds under a folder: <<base name, path under the folder,
\* content>>; content 0 stands for any of the databases
Walks ==
    << << >>,
       << <<"a.dbc", "a.dbc", 0>> >>,
       << <<"b.dbc", "b.dbc", 2>>, <<"a.dbc", "a.dbc", 0>> >>,
       << <<"a.dbc", "a.dbc", 0>>, <<"c.dbc", "c.dbc", 1>> >>,
       << <<"a.dbc", "a.dbc", 1>>, <<"a.dbc", "sub/a.dbc", 0>> >>,
       << <<"notes.txt", "notes.txt", 1>>, <<"b.dbc", "b.dbc", 0>> >> >>

Folder(root, walk, db) ==
    [kind |-> "dir",
     walk |-> [i \in 1..Len(walk) |->
                  [file |-> walk[i][1],
                   path |-> Path(root \o "/" \o walk[i][2],
                                 IF walk[i][3] = 0 THEN db ELSE walk[i][3])]]]

Folders(root) ==
    { Folder(root, Walks[w], db) : w \in 1..Len(Walks), db \in 1..NumCatalogs }

Files(root) ==
    { [kind |-> "file", basename |-> file, path |-> Path(root \o "/" \o file, db)]
        : file \in {"a.dbc", "b.dbc"}, db \in 1..NumCatalogs }

\* a path that exists and is neither a folder nor a regular file
Others == { [kind |-> "other"] }

Sources(root) == Folders(root) \cup Files(root) \cup Others

ReportKinds == {"json", "html"}

ReportLists == UNION { [1..n -> ReportKinds] : n \in 1..MaxReports }

report_name == "dbcdiff"

\* ------------------------------------------------------------------------
\* The run of main
\* ------------------------------------------------------------------------
VARIABLES
    old, new, unchanged,    \* the command line
    pc,                     \* where main is
    old_file_name, old_files, new_files,
    reconciled,             \* get_report: added, same, deleted
    todo,                   \* get_report: the keys its three loops still visit
    compare_report,
    last_call,              \* the latest call of compare_dbc and its result
    reports,                \* --reports, split
    reports_list,           \* main: the report tags the loop still visits
    written,                \* the report files written, in order
    exception               \* the exception that ended the run, or "none"

vars == <<old, new, unchanged, pc, old_file_name, old_files, new_files, reconciled,
          todo, compare_report, last_call, reports, reports_list, written, exception>>

Init ==
    /\ old \in Sources("old")
    /\ new \in Sources("new")
    /\ unchanged \in BOOLEAN
    /\ pc = "old"
    /\ old_file_name = None
    /\ old_files = EmptyDict
    /\ new_files = EmptyDict
    /\ reconciled = None
    /\ todo = [added |-> <<>>, deleted |-> <<>>, same |-> <<>>]
    /\ compare_report = EmptyDict
    /\ last_call = None
    /\ reports = <<>>
    /\ reports_list = <<>>
    /\ written = <<>>
    /\ exception = "none"

\* main, the old source
OldSource ==
    /\ pc = "old"
    /\ IF old.kind = "dir"
       THEN /\ old_files' = enum_files(old, ".dbc")
            /\ UNCHANGED old_file_name
            /\ pc' = "new"
            /\ UNCHANGED exception
       ELSE IF old.kind = "file"
       THEN /\ old_file_name' = Str(old.basename)
            /\ old_files' = setitem(EmptyDict, old.basename, old.path)
            /\ pc' = "new"
            /\ UNCHANGED exception
       ELSE /\ exception' = "ValueError"
            /\ pc' = "raised"
            /\ UNCHANGED <<old_file_name, old_files>>
    /\ UNCHANGED <<old, new, unchanged, new_files, reconciled, todo, compare_report,
                   last_call, reports, reports_list, written>>

\* a variant without the fix for different file names
different_filenames_unfixed(file_name, new_file_name) == FALSE

\* old_file_name is not None and old_file_name != new_file_name
different_filenames(file_name, new_file_name) ==
    file_name /= None /\ file_name.s /= new_file_name

\* main, the new source, and the keys under which the two sides are compared
NewSource ==
    /\ pc = "new"
    /\ IF new.kind = "dir"
       THEN /\ new_files' = enum_files(new, ".dbc")
            /\ pc' = "get_report"
            /\ UNCHANGED <<old_files, exception>>
       ELSE IF new.kind = "file"
       THEN LET renamed == different_filenames(old_file_name, new.basename)
                new_file_name == IF renamed
                                 THEN old_file_name.s \o " -> " \o new.basename
                                 ELSE new.basename
            IN  /\ old_files' = IF renamed
                                THEN setitem(pop(old_files, old_file_name.s),
                                             new_file_name,
                                             getitem(old_files, old_file_name.s))
                                ELSE old_files
                /\ new_files' = setitem(EmptyDict, new_file_name, new.path)
                /\ pc' = "get_report"
                /\ UNCHANGED exception
       ELSE /\ exception' = "ValueError"
            /\ pc' = "raised"
            /\ UNCHANGED <<old_files, new_files>>
    /\ UNCHANGED <<old, new, unchanged, old_file_name, reconciled, todo,
                   compare_report, last_call, reports, reports_list, written>>

\* get_report, its first statement
GetReport ==
    /\ pc = "get_report"
    /\ reconciled' = compare_dictionaries(old_files, new_files)
    /\ todo' = reconciled'
    /\ pc' = "files"
    /\ UNCHANGED <<old, new, unchanged, old_file_name, old_files, new_files,
                   compare_report, last_call, reports, reports_list, written,
                   exception>>

\* build_change(action, dbc_report) | versions
file_change(action, r) == r.versions @@ build_change(action, r.dbc_report, None)

call(old_path, new_path, r) ==
    [old |-> old_path, new |-> new_path, dbc_report |-> r.dbc_report,
     versions |-> r.versions, raised |-> r.raised]

\* one round of a loop of get_report: r is what compare_dbc returned, action
\* the tag of the entry of the file, "" when it gets none
FileStep(old_path, new_path, r, file, action, rest) ==
    /\ last_call' = call(old_path, new_path, r)
    /\ IF r.raised
       THEN /\ exception' = "critical error"
            /\ pc' = "raised"
            /\ UNCHANGED <<compare_report, todo>>
       ELSE /\ compare_report' = IF action = "" THEN compare_report
                                 ELSE setitem(compare_report, file,
                                              file_change(action, r))
            /\ todo' = rest
            /\ UNCHANGED <<pc, exception>>
    /\ UNCHANGED <<old, new, unchanged, old_file_name, old_files, new_files,
                   reconciled, reports, reports_list, written>>

\* for file_added in added
FileAdded ==
    /\ pc = "files"
    /\ Len(todo.added) > 0
    /\ FileStep(None, getitem(new_files, todo.added[1]),
                compare_dbc(None, getitem(new_files, todo.added[1])),
                todo.added[1], "added", [todo EXCEPT !.added = Tail(@)])

\* for file_deleted in deleted
FileDeleted ==
    /\ pc = "files"
    /\ Len(todo.added) = 0
    /\ Len(todo.deleted) > 0
    /\ FileStep(getitem(old_files, todo.deleted[1]), None,
                compare_dbc(getitem(old_files, todo.deleted[1]), None),
                todo.deleted[1], "deleted", [todo EXCEPT !.deleted = Tail(@)])

\* a variant that does not look at the versions
file_changed_by_messages(dbc_report, versions) == len(dbc_report) > 0

\* len(dbc_report) > 0 or not versions['same_version']
file_changed(dbc_report, versions) ==
    len(dbc_report) > 0 \/ ~versions.same_version

\* the if / elif of the loop over same
FileSameStep(old_path, new_path, r, file, rest) ==
    FileStep(old_path, new_path, r, file,
             IF r.raised THEN ""
             ELSE IF file_changed(r.dbc_report, r.versions) THEN "changed"
             ELSE IF unchanged THEN "unchanged"
             ELSE "",
             rest)

\* for file_same in same
FileSame ==
    /\ pc = "files"
    /\ Len(todo.added) = 0
    /\ Len(todo.deleted) = 0
    /\ Len(todo.same) > 0
    /\ FileSameStep(getitem(old_files, todo.same[1]), getitem(new_files, todo.same[1]),
                    compare_dbc(getitem(old_files, todo.same[1]),
                                getitem(new_files, todo.same[1])),
                    todo.same[1], [todo EXCEPT !.same = Tail(@)])

\* get_report returns; main splits --reports
SplitReports ==
    /\ pc = "files"
    /\ Len(todo.added) = 0
    /\ Len(todo.deleted) = 0
    /\ Len(todo.same) = 0
    /\ \E tags \in ReportLists : reports' = tags
    /\ reports_list' = reports'
    /\ pc' = "reports"
    /\ UNCHANGED <<old, new, unchanged, old_file_name, old_files, new_files,
                   reconciled, todo, compare_report, last_call, written, exception>>

report_save_path(report_extension) == report_name \o "." \o report_extension

\* write_json_report: the path ends in .json already, the file is written
WriteJson ==
    /\ pc = "reports"
    /\ Len(reports_list) > 0
    /\ reports_list[1] = "json"
    /\ written' = Append(written, report_save_path(reports_list[1]))
    /\ reports_list' = Tail(reports_list)
    /\ UNCHANGED <<old, new, unchanged, pc, old_file_name, old_files, new_files,
                   reconciled, todo, compare_report, last_call, reports, exception>>

\* a variant that opens the report file before it looks for the template
TemplateReport_write_first(template_exists) ==
    /\ pc = "reports"
    /\ Len(reports_list) > 0
    /\ reports_list[1] /= "json"
    /\ written' = Append(written, report_save_path(reports_list[1]))
    /\ IF ~template_exists
       THEN /\ exception' = "FileNotFoundError"
            /\ pc' = "raised"
            /\ UNCHANGED reports_list
       ELSE /\ reports_list' = Tail(reports_list)
            /\ UNCHANGED <<pc, exception>>
    /\ UNCHANGED <<old, new, unchanged, old_file_name, old_files, new_files,
                   reconciled, todo, compare_report, last_call, reports>>

\* a report from a template; template_exists is os.path.exists(template_path)
TemplateReport(template_exists) ==
    /\ pc = "reports"
    /\ Len(reports_list) > 0
    /\ reports_list[1] /= "json"
    /\ IF ~template_exists
       THEN /\ exception' = "FileNotFoundError"
            /\ pc' = "raised"
            /\ UNCHANGED <<written, reports_list>>
       ELSE /\ written' = Append(written, report_save_path(reports_list[1]))
            /\ reports_list' = Tail(reports_list)
            /\ UNCHANGED <<pc, exception>>
    /\ UNCHANGED <<old, new, unchanged, old_file_name, old_files, new_files,
                   reconciled, todo, compare_report, last_call, reports>>

\* the loop over the report tags is over
Finish ==
    /\ pc = "reports"
    /\ Len(reports_list) = 0
    /\ pc' = "done"
    /\ UNCHANGED <<old, new, unchanged, old_file_name, old_files, new_files,
                   reconciled, todo, compare_report, last_call, reports,
                   reports_list, written, exception>>

Next ==
    \/ OldSource
    \/ NewSource
    \/ GetReport
    \/ FileAdded
    \/ FileDeleted
    \/ FileSame
    \/ SplitReports
    \/ WriteJson
    \/ \E template_exists \in BOOLEAN : TemplateReport(template_exists)
    \/ Finish

Spec == Init /\ [][Next]_vars

\* ------------------------------------------------------------------------
\* Properties
\* ------------------------------------------------------------------------
ToSet(seq) == {seq[i] : i \in 1..Len(seq)}

NoRepeat(seq) == \A i, j \in 1..Len(seq) : seq[i] = seq[j] => i = j

\* the two mappings the latest compare_dbc reconciled
OldMessages == dbc_loader(last_call.old).messages
NewMessages == dbc_loader(last_call.new).messages

\* compare_dbc has just returned (or raised)
Called == last_call /= None /\ pc \in {"files", "raised"}

\* r = <<added, same, deleted>> splits the keys of old and new
Partitions(r, old_keys, new_keys) ==
    /\ ToSet(r.added) = new_keys \ old_keys
    /\ ToSet(r.same) = new_keys \cap old_keys
    /\ ToSet(r.deleted) = old_keys \ new_keys
    /\ ToSet(r.added) \cap ToSet(r.same) = {}
    /\ ToSet(r.added) \cap ToSet(r.deleted) = {}
    /\ ToSet(r.same) \cap ToSet(r.deleted) = {}
    /\ ToSet(r.added) \cup ToSet(r.same) \cup ToSet(r.deleted) = old_keys \cup new_keys
    /\ NoRepeat(r.added \o r.same \o r.deleted)

\* C1: compare_dictionaries returns three pairwise disjoint key sequences
\* whose union is keys(old) \cup keys(new): added = only in new, common = in
\* both, removed = only in old, no key omitted or repeated.  Checked on the
\* file names get_report reconciled and on the messages and the signals of
\* the latest pair of catalogs.
C1_Partition ==
    /\ reconciled /= None =>
          Partitions(reconciled, KeySet(old_files), KeySet(new_files))
    /\ Called =>
          /\ Partitions(compare_dictionaries(OldMessages, NewMessages),
                        KeySet(OldMessages), KeySet(NewMessages))
          /\ \A m \in KeySet(OldMessages) \cap KeySet(NewMessages) :
                LET o == getitem(OldMessages, m).msg_signals
                    n == getitem(NewMessages, m).msg_signals
                IN  Partitions(compare_dictionaries(o, n), KeySet(o), KeySet(n))

\* file names only in new, in both and only in old, all at once
C1_Witness ==
    /\ reconciled /= None
    /\ Len(reconciled.added) > 0
    /\ Len(reconciled.same) > 0
    /\ Len(reconciled.deleted) > 0

\* C2: compare_dbc with the same catalog on both sides yields an empty
\* message change map and same_version = true.
C2_Idempotent ==
    (Called /\ last_call.old /= None /\ last_call.new /= None
        /\ last_call.old.db = last_call.new.db)
    => /\ len(last_call.dbc_report) = 0
       /\ last_call.versions.same_version = TRUE

\* a catalog with messages and signals was compared with itself
C2_Witness ==
    /\ Called /\ last_call.old /= None /\ last_call.new /= None
    /\ last_call.old.db = last_call.new.db
    /\ len(OldMessages) = 2
    /\ len(last_call.dbc_report) = 0

Names(properties) == {properties[i][1] : i \in 1..Len(properties)}

\* payload holds exactly one delta for every attribute of the schema that item
\* has a value for, the normalized value on side src and None on side dst, and
\* nothing else
Inventory(payload, item, properties, src, dst) ==
    /\ \A j \in 1..Len(payload) : payload[j].name \in Names(properties)
    /\ \A i \in 1..Len(properties) :
          LET name == properties[i][1]
              value == item[name]
              at == {j \in 1..Len(payload) : payload[j].name = name}
          IN  /\ Cardinality(at) = IF value = None THEN 0 ELSE 1
              /\ \A j \in at :
                    /\ payload[j][src] = converter(value, properties[i][2])
                    /\ payload[j][dst] = None

\* every message of messages and every signal of each is in report under the
\* tag, with its inventory
FullInventory(report, messages, tag, src, dst) ==
    /\ KeySet(report) = KeySet(messages)
    /\ \A m \in KeySet(messages) :
          LET record == getitem(report, m)
              message == getitem(messages, m)
          IN  /\ record.action = tag
              /\ Inventory(record[tag], message, message_properties, src, dst)
              /\ KeySet(record.signals) = KeySet(message.msg_signals)
              /\ \A g \in KeySet(message.msg_signals) :
                    LET signal_record == getitem(record.signals, g)
                    IN  /\ signal_record.action = tag
                        /\ Inventory(signal_record[tag],
                                     getitem(message.msg_signals, g),
                                     signal_properties, src, dst)

OnlyOld == Called /\ last_call.old /= None /\ last_call.new = None
OnlyNew == Called /\ last_call.old = None /\ last_call.new /= None

\* C3 as stated: a catalog against an absent new side has every message and
\* every signal `removed` with one delta {name, old = value, new = absent}
\* per non-null attribute; an absent old side against it the same, `added`.
C3_AsStated ==
    /\ OnlyOld => FullInventory(last_call.dbc_report, OldMessages, "removed", "old", "new")
    /\ OnlyNew => FullInventory(last_call.dbc_report, NewMessages, "added", "new", "old")

\* C3 as amended: the same, the tag of the absent-new-side case is `deleted`.
C3_FullInventory ==
    /\ OnlyOld => FullInventory(last_call.dbc_report, OldMessages, "deleted", "old", "new")
    /\ OnlyNew => FullInventory(last_call.dbc_report, NewMessages, "added", "new", "old")

\* a catalog with two messages, one of them with two signals, lost its new side
C3_Witness ==
    /\ OnlyOld
    /\ len(last_call.dbc_report) = 2
    /\ \E m \in KeySet(OldMessages) : len(getitem(OldMessages, m).msg_signals) = 2

\* the normalized values of some attribute of the schema differ
Differ(old_item, new_item, properties) ==
    \E i \in 1..Len(properties) :
        converter(old_item[properties[i][1]], properties[i][2])
            /= converter(new_item[properties[i][1]], properties[i][2])

\* the signals of a message in both catalogs that are added, removed or changed
ChangedSignals(old_message, new_message) ==
    LET o == old_message.msg_signals
        n == new_message.msg_signals
    IN  { g \in KeySet(o) \cup KeySet(n) :
            \/ g \notin KeySet(o)
            \/ g \notin KeySet(n)
            \/ Differ(getitem(o, g), getitem(n, g), signal_properties) }

\* the message map has a key exactly for the added, the removed (under the
\* tag removed_tag) and the changed messages, and the signal map of a changed
\* message exactly the added, removed and changed signals
NetChanges(report, removed_tag) ==
    /\ KeySet(report) \subseteq KeySet(OldMessages) \cup KeySet(NewMessages)
    /\ \A m \in KeySet(OldMessages) \cup KeySet(NewMessages) :
          IF m \notin KeySet(OldMessages)
          THEN m \in KeySet(report) /\ getitem(report, m).action = "added"
          ELSE IF m \notin KeySet(NewMessages)
          THEN m \in KeySet(report) /\ getitem(report, m).action = removed_tag
          ELSE LET o == getitem(OldMessages, m)
                   n == getitem(NewMessages, m)
               IN  IF Differ(o, n, message_properties) \/ ChangedSignals(o, n) /= {}
                   THEN /\ m \in KeySet(report)
                        /\ getitem(report, m).action = "changed"
                        /\ KeySet(getitem(report, m).signals) = ChangedSignals(o, n)
                   ELSE m \notin KeySet(report)

\* C4 as stated: the message map has a key for a message iff it is only in
\* new (`added`), only in old (`removed`) or in both with a message-level
\* delta or a signal change (`changed`); a common message without difference
\* is omitted; the signal map of a changed message holds exactly the added,
\* removed and property-changed signals.
C4_AsStated == Called /\ ~last_call.raised => NetChanges(last_call.dbc_report, "removed")

\* C4 as amended: the same, a message only in old has the record `deleted`.
C4_NetChanges == Called /\ ~last_call.raised => NetChanges(last_call.dbc_report, "deleted")

\* two catalogs with a message in both that does not differ (omitted) and a
\* message only in old
C4_Witness ==
    /\ Called /\ last_call.old /= None /\ last_call.new /= None
    /\ \E m \in KeySet(OldMessages) \cap KeySet(NewMessages) :
          m \notin KeySet(last_call.dbc_report)
    /\ \E m \in KeySet(OldMessages) \ KeySet(NewMessages) :
          m \in KeySet(last_call.dbc_report)

\* dbc.version of the file at a path, "unknown" when missing or empty
VersionOf(path) ==
    LET version == Database(path.db).version
    IN  IF version = None \/ version = Str("") THEN Str("unknown") ELSE version

\* C5 as stated: the version metadata always has same_version, equal to
\* (old version = new version) where the version of an absent side, like a
\* missing or empty version of a present side, is "unknown".
C5_AsStated ==
    Called =>
        LET old_version == IF last_call.old = None THEN Str("unknown")
                           ELSE VersionOf(last_call.old)
            new_version == IF last_call.new = None THEN Str("unknown")
                           ELSE VersionOf(last_call.new)
        IN  /\ "same_version" \in DOMAIN last_call.versions
            /\ last_call.versions.same_version = (old_version = new_version)

\* C5 as amended: the same, but an absent side has no version (None), which
\* equals no version string of a present side.
C5_SameVersion ==
    Called =>
        LET old_version == IF last_call.old = None THEN None
                           ELSE VersionOf(last_call.old)
            new_version == IF last_call.new = None THEN None
                           ELSE VersionOf(last_call.new)
        IN  /\ "same_version" \in DOMAIN last_call.versions
            /\ last_call.versions.same_version = (old_version = new_version)

\* a file without a version that is only on the new side
C5_Witness ==
    /\ OnlyNew
    /\ VersionOf(last_call.new) = Str("unknown")
    /\ last_call.versions.same_version = FALSE

\* the file of `same` that get_report has just compared
SameStep ==
    /\ Called /\ ~last_call.raised
    /\ last_call.old /= None /\ last_call.new /= None

JustCompared == reconciled.same[Len(reconciled.same) - Len(todo.same)]

NothingFound == len(last_call.dbc_report) = 0 /\ last_call.versions.same_version

\* C6: a file in both collections for which the catalog differ found nothing
\* and the versions match is omitted without the unchanged flag and tagged
\* `unchanged` with it; any other file in both is tagged `changed`; no file in
\* both is tagged `added` or `removed`.
C6_SameFiles ==
    /\ SameStep =>
          IF NothingFound
          THEN IF unchanged
               THEN /\ JustCompared \in KeySet(compare_report)
                    /\ getitem(compare_report, JustCompared).action = "unchanged"
               ELSE JustCompared \notin KeySet(compare_report)
          ELSE /\ JustCompared \in KeySet(compare_report)
               /\ getitem(compare_report, JustCompared).action = "changed"
    /\ reconciled /= None =>
          \A f \in ToSet(reconciled.same) \cap KeySet(compare_report) :
              getitem(compare_report, f).action \in {"changed", "unchanged"}

\* two files of the same name and content that differ in the version only
C6_Witness ==
    /\ SameStep
    /\ len(last_call.dbc_report) = 0
    /\ ~last_call.versions.same_version
    /\ getitem(compare_report, JustCompared).action = "changed"

\* one old file against one new file of another name
Rename == old.kind = "file" /\ new.kind = "file" /\ old.basename /= new.basename

\* get_report has returned
ReportBuilt == pc \in {"reports", "done"} \/ exception = "FileNotFoundError"

\* C7 as stated: one old file against one new file of another name yields one
\* entry keyed "<old> -> <new>", for every pair of contents and either
\* setting of the unchanged flag.
C7_AsStated ==
    Rename /\ ReportBuilt =>
        keys(compare_report) = << old.basename \o " -> " \o new.basename >>

\* C7 as amended: it yields no add or remove entry and at most one entry,
\* keyed "<old> -> <new>"; the report is empty exactly when the two files
\* have no message difference and the same version and the unchanged flag is
\* off.
C7_Rename ==
    Rename /\ ReportBuilt =>
        /\ KeySet(compare_report) \subseteq {old.basename \o " -> " \o new.basename}
        /\ \A f \in KeySet(compare_report) :
              getitem(compare_report, f).action \in {"changed", "unchanged"}
        /\ len(compare_report) = 0 <=> (NothingFound /\ ~unchanged)

\* a.dbc against b.dbc, different contents, one entry
C7_Witness ==
    /\ Rename /\ pc = "done"
    /\ keys(compare_report) = << "a.dbc -> b.dbc" >>
    /\ getitem(compare_report, "a.dbc -> b.dbc").action = "changed"

\* the report files of the tags the loop has gone through
WrittenSoFar ==
    [i \in 1..(Len(reports) - Len(reports_list)) |-> report_save_path(reports[i])]

\* C8 as stated: when a listed non-JSON kind has no template, the run fails
\* before any report file is written, a json kind listed earlier included.
C8_AsStated == exception = "FileNotFoundError" => written = <<>>

\* C8 as amended: the run fails before the report of that kind or of any kind
\* listed after it is written; the reports of the kinds listed before it have
\* been written.
C8_TemplateNotFound ==
    exception = "FileNotFoundError" =>
        /\ reports_list[1] /= "json"
        /\ written = WrittenSoFar
        /\ Len(written) < Len(reports)

\* json,html without the html template: the json report is there
C8_Witness ==
    /\ exception = "FileNotFoundError"
    /\ reports = <<"json", "html">>
    /\ written = <<"dbcdiff.json">>

\* the strings of seq are in ascending lexicographic order
Sorted(seq) == \A i, j \in 1..Len(seq) : i < j => StrRank(seq[i]) < StrRank(seq[j])

\* the keys of D go by the rank of their record's action, then ascending
GroupSorted(D, rank) ==
    \A i, j \in 1..Len(D.d) :
        i < j =>
            LET ri == rank[D.d[i][2].action]
                rj == rank[D.d[j][2].action]
            IN  ri < rj \/ (ri = rj /\ StrRank(D.d[i][1]) < StrRank(D.d[j][1]))

FileOrder == [added |-> 1, deleted |-> 2, changed |-> 3, unchanged |-> 3]
InnerOrder == [changed |-> 1, deleted |-> 2, added |-> 3]

\* C9 as stated: at every level (file map, message map, signal map of a
\* changed message, signal map of an added or removed message) the keys are
\* in lexicographic order, whatever the iteration order of the source.
C9_AsStated ==
    /\ Sorted(keys(compare_report))
    /\ Called /\ ~last_call.raised =>
          /\ Sorted(keys(last_call.dbc_report))
          /\ \A m \in KeySet(last_call.dbc_report) :
                Sorted(keys(getitem(last_call.dbc_report, m).signals))

\* C9 as amended: the file map lists the added files, then the deleted, then
\* the changed and unchanged ones; the message map and the signal map of a
\* changed message list the changed keys, then the deleted, then the added;
\* each group is in lexicographic order.  The signal map of an added or
\* deleted message has the order of the message's own signal mapping.
C9_GroupedOrder ==
    /\ GroupSorted(compare_report, FileOrder)
    /\ Called /\ ~last_call.raised =>
          /\ GroupSorted(last_call.dbc_report, InnerOrder)
          /\ \A m \in KeySet(last_call.dbc_report) :
                LET record == getitem(last_call.dbc_report, m)
                IN  CASE record.action = "changed" ->
                            GroupSorted(record.signals, InnerOrder)
                      [] record.action = "deleted" ->
                            keys(record.signals) = keys(getitem(OldMessages, m).msg_signals)
                      [] record.action = "added" ->
                            keys(record.signals) = keys(getitem(NewMessages, m).msg_signals)
                      [] OTHER -> FALSE

\* a message map whose source lists M2 before M1, and an added message whose
\* signals are S2, S1 in the source
C9_Witness ==
    /\ OnlyNew
    /\ keys(NewMessages) = <<"M2", "M1">>
    /\ keys(last_call.dbc_report) = <<"M1", "M2">>
    /\ keys(getitem(last_call.dbc_report, "M1").signals) = <<"S2", "S1">>

\* C10: build_action never reaches logger.critical: every call made by
\* compare_messages, message_signals and compare_dbc passes an action that
\* build_action accepts.
C10_NoCritical ==
    /\ exception /= "critical error"
    /\ last_call /= None => ~last_call.raised

\* build_action has run for messages and signals, added and deleted
C10_Witness ==
    /\ pc = "done"
    /\ \E f \in KeySet(compare_report) :
          LET messages == getitem(compare_report, f).changed
          IN  /\ getitem(compare_report, f).action = "changed"
              /\ \E m \in KeySet(messages) : getitem(messages, m).action = "deleted"
              /\ \E m \in KeySet(messages) :
                    /\ getitem(messages, m).action = "changed"
                    /\ \E g \in KeySet(getitem(messages, m).signals) :
                          getitem(getitem(messages, m).signals, g).action = "added"

====
